---- MODULE Spec2Model ----
(***************************************************************************)
(* Dog Care Tracker (script.js): the localStorage keys, the three click    *)
(* handlers, the one-minute interval timer and the functions they call.    *)
(*                                                                         *)
(* Strings are sequences of one-character strings, so that toString,       *)
(* parseInt, JSON.stringify and JSON.parse are computed character by       *)
(* character.  A JavaScript number is a record [nan, val]: nan = TRUE is   *)
(* NaN, otherwise val is the integer.  A value returned by                 *)
(* localStorage.getItem is <<>> for null and <<s>> for the string s.       *)
(* Times are milliseconds counted from an origin a few days before the     *)
(* page load (TLC's integers are 32 bits wide).                            *)
(***************************************************************************)
EXTENDS Integers, Sequences, FiniteSets, TLC

VARIABLES
  localStorage,   \* the persisted keys: a function from the keys present to strings
  dom,            \* textContent of the four display elements
  download,       \* the last file handed to the browser by exportRecords, <<>> if none
  now,            \* the wall clock, Date.now()
  nextTick,       \* when the setInterval timer is next due
  lastOp,         \* which handler (or clock advance) produced this state
  hsCall,         \* <<>> or <<s>>: the argument of updateHighScore in the last handler
  hsWrote,        \* whether the last handler wrote HIGH_SCORE_KEY
  bestStreak      \* history variable: the longest whole-day streak reached so far

vars == <<localStorage, dom, download, now, nextTick, lastOp, hsCall, hsWrote, bestStreak>>

-----------------------------------------------------------------------------
(* Bounds of the model *)

\* Date.now() at page load
LoadTime == 500000000
\* the short horizon, in timer periods after the page load
MaxTicks == 2
\* record-water clicks are taken while the stored history is shorter than this
MaxHistory == 2

-----------------------------------------------------------------------------
(* Program constants *)

WATER_KEY == "dogcare_lastWaterTimestamp"
INCIDENT_KEY == "dogcare_lastIncidentTimestamp"
WATER_HISTORY_KEY == "dogcare_waterHistory"
HIGH_SCORE_KEY == "dogcare_highScore"

MsPerDay == 1000 * 60 * 60 * 24
TimerPeriod == 60 * 1000

-----------------------------------------------------------------------------
(* JavaScript numbers and strings *)

Num(v) == [nan |-> FALSE, val |-> v]
NaN == [nan |-> TRUE, val |-> 0]

\* a > b on numbers: false when either side is NaN
JsGreater(a, b) == ~a.nan /\ ~b.nan /\ a.val > b.val

Digits == <<"0", "1", "2", "3", "4", "5", "6", "7", "8", "9">>
IsDigit(c) == \E i \in 1..10 : Digits[i] = c
DigitVal(c) == (CHOOSE i \in 1..10 : Digits[i] = c) - 1

RECURSIVE NatToString(_)
NatToString(n) ==
  IF n < 10 THEN <<Digits[n + 1]>>
  ELSE NatToString(n \div 10) \o <<Digits[(n % 10) + 1]>>

\* Number.prototype.toString() of an integer or of NaN
NumberToString(x) ==
  IF x.nan THEN <<"N", "a", "N">>
  ELSE IF x.val < 0 THEN <<"-">> \o NatToString(0 - x.val)
  ELSE NatToString(x.val)

RECURSIVE DigitPrefixLen(_)
DigitPrefixLen(s) ==
  IF s = <<>> \/ ~IsDigit(Head(s)) THEN 0 ELSE 1 + DigitPrefixLen(Tail(s))

RECURSIVE DigitsValue(_, _)
DigitsValue(s, n) ==
  IF n = 0 THEN 0 ELSE 10 * DigitsValue(s, n - 1) + DigitVal(s[n])

\* parseInt(s, 10): an optional sign, then the longest run of digits; NaN if none
ParseInt(s) ==
  LET signed == s # <<>> /\ Head(s) \in {"-", "+"}
      body == IF signed THEN Tail(s) ELSE s
      n == DigitPrefixLen(body)
  IN IF n = 0 THEN NaN
     ELSE IF signed /\ Head(s) = "-" THEN Num(0 - DigitsValue(body, n))
     ELSE Num(DigitsValue(body, n))

RECURSIVE JoinWith(_, _)
\* Array.prototype.join(sep) on an array of strings
JoinWith(parts, sep) ==
  IF parts = <<>> THEN <<>>
  ELSE IF Len(parts) = 1 THEN parts[1]
  ELSE parts[1] \o sep \o JoinWith(Tail(parts), sep)

RECURSIVE SplitCommas(_)
\* the pieces of s between its commas
SplitCommas(s) ==
  IF \A i \in 1..Len(s) : s[i] # ","
  THEN <<s>>
  ELSE LET k == CHOOSE i \in 1..Len(s) : s[i] = "," /\ \A j \in 1..(i - 1) : s[j] # ","
       IN <<SubSeq(s, 1, k - 1)>> \o SplitCommas(SubSeq(s, k + 1, Len(s)))

\* a JSON integer literal: an optional minus, digits, no leading zero
IsIntLiteral(s) ==
  LET body == IF s # <<>> /\ Head(s) = "-" THEN Tail(s) ELSE s
  IN /\ body # <<>>
     /\ \A i \in 1..Len(body) : IsDigit(body[i])
     /\ (Len(body) > 1 => body[1] # "0")

\* JSON.stringify of an array of integers
JsonStringify(arr) ==
  <<"[">> \o JoinWith([i \in 1..Len(arr) |-> NumberToString(Num(arr[i]))], <<",">>) \o <<"]">>

\* JSON.parse on the texts the model stores: an array of integers, a lone
\* integer (valid JSON that is no array), anything else a SyntaxError
JsonParse(s) ==
  IF IsIntLiteral(s) THEN [kind |-> "number", items |-> <<>>]
  ELSE IF Len(s) >= 2 /\ s[1] = "[" /\ s[Len(s)] = "]"
  THEN LET inner == SubSeq(s, 2, Len(s) - 1)
           parts == SplitCommas(inner)
       IN IF inner = <<>> THEN [kind |-> "array", items |-> <<>>]
          ELSE IF \A i \in 1..Len(parts) : IsIntLiteral(parts[i])
          THEN [kind |-> "array", items |-> [i \in 1..Len(parts) |-> ParseInt(parts[i]).val]]
          ELSE [kind |-> "throws", items |-> <<>>]
  ELSE [kind |-> "throws", items |-> <<>>]

-----------------------------------------------------------------------------
(* Fixed texts *)

TxtNoRecordYet == <<"N", "o", " ", "r", "e", "c", "o", "r", "d", " ", "y", "e", "t">>
TxtNoIncident == <<"N", "o", " ", "i", "n", "c", "i", "d", "e", "n", "t">>
TxtInvalidDate == <<"I", "n", "v", "a", "l", "i", "d", " ", "D", "a", "t", "e">>
TxtZero == <<"0">>
TxtRecordType == <<"R", "e", "c", "o", "r", "d", " ", "T", "y", "p", "e">>
TxtTimestamp == <<"T", "i", "m", "e", "s", "t", "a", "m", "p">>
TxtDateTime == <<"D", "a", "t", "e", "/", "T", "i", "m", "e">>
TxtWater == <<"W", "a", "t", "e", "r">>
TxtLastIncident == <<"L", "a", "s", "t", " ", "I", "n", "c", "i", "d", "e", "n", "t">>
TxtHighScoreDays == <<"H", "i", "g", "h", " ", "S", "c", "o", "r", "e", " ", "(", "d", "a", "y", "s", ")">>
TxtFilePrefix == <<"d", "o", "g", "c", "a", "r", "e", "_", "r", "e", "c", "o", "r", "d", "s", "_">>
TxtFileSuffix == <<".", "c", "s", "v">>

-----------------------------------------------------------------------------
(* localStorage *)

\* getItem: <<>> is null, <<s>> the stored string
GetItem(store, key) == IF key \in DOMAIN store THEN <<store[key]>> ELSE <<>>

SetItem(store, key, value) == (key :> value) @@ store

\* truthiness of a getItem result: null and the empty string are falsy
Truthy(item) == item # <<>> /\ item[1] # <<>>

-----------------------------------------------------------------------------
(* Dates *)

\* A Date is modelled by its time value: new Date(x) of a number in the model's
\* range has time value x, and NaN gives the invalid date.

\* formatDateTime: the locale's medium date and short time name the minute
\* the instant falls in and nothing finer; the text stands for that minute.
\* toLocaleString of an invalid date is "Invalid Date".
FormatDateTime(date) ==
  IF date.nan THEN TxtInvalidDate
  ELSE <<"m", "i", "n", " ">> \o NumberToString(Num(date.val \div TimerPeriod))

DifferenceInDaysCeil(start, end) ==
  IF start.nan \/ end.nan THEN NaN
  ELSE Num(0 - ((start.val - end.val) \div MsPerDay))

\* differenceInDays(start, end) on time values
DifferenceInDays(start, end) ==
  IF start.nan \/ end.nan THEN NaN
  ELSE Num((end.val - start.val) \div MsPerDay)

\* now.toISOString().split('T')[0]: the UTC calendar day
IsoDate(t) == <<"d", "a", "y", " ">> \o NumberToString(Num(t \div MsPerDay))

-----------------------------------------------------------------------------
(* Water history *)

\* getWaterHistory: the parsed array, or [] when the key is missing or empty,
\* JSON.parse throws, or the parsed value is no array
GetWaterHistory(store) ==
  LET historyString == GetItem(store, WATER_HISTORY_KEY)
  IN IF Truthy(historyString)
     THEN LET parsed == JsonParse(historyString[1])
          IN IF parsed.kind = "array" THEN parsed.items ELSE <<>>
     ELSE <<>>

\* saveWaterHistory
SaveWaterHistory(store, history) ==
  SetItem(store, WATER_HISTORY_KEY, JsonStringify(history))

UnshiftAtBack(history, t) == history \o <<t>>

\* history.unshift(now)
Unshift(history, t) == <<t>> \o history

\* updateWaterHistoryDisplay: one list item per entry, in stored order
UpdateWaterHistoryDisplay(store) ==
  LET history == GetWaterHistory(store)
  IN [i \in 1..Len(history) |-> FormatDateTime(Num(history[i]))]

-----------------------------------------------------------------------------
(* High score *)

\* the stored high score as updateHighScore reads it: 0 unless it parses
HighScoreValue(store) ==
  LET highScoreStr == GetItem(store, HIGH_SCORE_KEY)
      parsed == IF Truthy(highScoreStr) THEN ParseInt(highScoreStr[1]) ELSE NaN
  IN IF parsed.nan THEN Num(0) ELSE parsed

UpdateHighScoreTracksStreak(store, currentDays) ==
  LET highScore == HighScoreValue(store)
      differs == ~currentDays.nan /\ currentDays.val # highScore.val
      result == IF differs THEN currentDays ELSE highScore
  IN [store |-> IF differs THEN SetItem(store, HIGH_SCORE_KEY, NumberToString(result))
                ELSE store,
      wrote |-> differs,
      text |-> NumberToString(result)]

UpdateHighScoreOnTie(store, currentDays) ==
  LET highScore == HighScoreValue(store)
      reaches == ~currentDays.nan /\ currentDays.val >= highScore.val
      result == IF reaches THEN currentDays ELSE highScore
  IN [store |-> IF reaches THEN SetItem(store, HIGH_SCORE_KEY, NumberToString(result))
                ELSE store,
      wrote |-> reaches,
      text |-> NumberToString(result)]

\* updateHighScore(currentDays): the store afterwards, whether it was written,
\* and the text put in highScoreDisplay
UpdateHighScore(store, currentDays) ==
  LET highScore == HighScoreValue(store)
      exceeds == JsGreater(currentDays, highScore)
      result == IF exceeds THEN currentDays ELSE highScore
  IN [store |-> IF exceeds THEN SetItem(store, HIGH_SCORE_KEY, NumberToString(result))
                ELSE store,
      wrote |-> exceeds,
      text |-> NumberToString(result)]

\* showHighScore: the text put in highScoreDisplay
ShowHighScore(store) ==
  LET highScoreStr == GetItem(store, HIGH_SCORE_KEY)
  IN IF Truthy(highScoreStr) /\ ~ParseInt(highScoreStr[1]).nan
     THEN NumberToString(ParseInt(highScoreStr[1]))
     ELSE TxtZero

-----------------------------------------------------------------------------
(* updateDisplays *)

\* lines 52-57: the text of lastWaterDisplay
LastWaterText(store) ==
  LET lastWaterTimestamp == GetItem(store, WATER_KEY)
  IN IF Truthy(lastWaterTimestamp)
     THEN FormatDateTime(ParseInt(lastWaterTimestamp[1]))
     ELSE TxtNoRecordYet

StreakPartFromEpoch(store, t) ==
  LET lastIncidentTimestamp == GetItem(store, INCIDENT_KEY)
      stamp == IF Truthy(lastIncidentTimestamp) THEN ParseInt(lastIncidentTimestamp[1])
               ELSE Num(0)
      days == DifferenceInDays(stamp, Num(t))
      r == UpdateHighScore(store, days)
  IN [store |-> r.store, daysDisplay |-> NumberToString(days),
      hsCall |-> <<days>>, hsWrote |-> r.wrote]

\* lines 59-68: the streak, and the high score it may raise, at time t
StreakPart(store, t) ==
  LET lastIncidentTimestamp == GetItem(store, INCIDENT_KEY)
  IN IF Truthy(lastIncidentTimestamp)
     THEN LET days == DifferenceInDays(ParseInt(lastIncidentTimestamp[1]), Num(t))
              r == UpdateHighScore(store, days)
          IN [store |-> r.store, daysDisplay |-> NumberToString(days),
              hsCall |-> <<days>>, hsWrote |-> r.wrote]
     ELSE [store |-> store, daysDisplay |-> TxtNoIncident,
           hsCall |-> <<>>, hsWrote |-> FALSE]

\* lines 70-73, after the streak part sp has run: updateWaterHistoryDisplay()
\* and showHighScore() fill the other two displays
FinishDisplays(lastWaterText, sp) ==
  [store |-> sp.store,
   dom |-> [lastWaterDisplay |-> lastWaterText,
            daysDisplay |-> sp.daysDisplay,
            waterHistoryList |-> UpdateWaterHistoryDisplay(sp.store),
            highScoreDisplay |-> ShowHighScore(sp.store)],
   hsCall |-> sp.hsCall,
   hsWrote |-> sp.hsWrote]

\* updateDisplays() at time t: the store and the four displays afterwards
UpdateDisplays(store, t) ==
  FinishDisplays(LastWaterText(store), StreakPart(store, t))

-----------------------------------------------------------------------------
(* exportRecords *)

RECURSIVE EscapeQuotes(_)
\* String(field).replace(/"/g, '""')
EscapeQuotes(s) ==
  IF s = <<>> THEN <<>>
  ELSE IF Head(s) = "\"" THEN <<"\"", "\"">> \o EscapeQuotes(Tail(s))
  ELSE <<Head(s)>> \o EscapeQuotes(Tail(s))

QuoteField(field) == <<"\"">> \o EscapeQuotes(field) \o <<"\"">>

\* rows -> csvContent: fields quoted and joined by commas, rows by newlines
CsvContent(rows) ==
  JoinWith([i \in 1..Len(rows) |->
              JoinWith([j \in 1..Len(rows[i]) |-> QuoteField(rows[i][j])], <<",">>)],
           <<"\n">>)

HeaderRow == <<TxtRecordType, TxtTimestamp, TxtDateTime>>

WaterRows(store) ==
  LET waterHistory == GetWaterHistory(store)
  IN [i \in 1..Len(waterHistory) |->
        <<TxtWater, NumberToString(Num(waterHistory[i])),
          FormatDateTime(Num(waterHistory[i]))>>]

IncidentRows(store) ==
  LET incidentTsStr == GetItem(store, INCIDENT_KEY)
  IN IF Truthy(incidentTsStr)
     THEN << <<TxtLastIncident, incidentTsStr[1],
               FormatDateTime(ParseInt(incidentTsStr[1]))>> >>
     ELSE <<>>

HighScoreRow(store) ==
  LET item == GetItem(store, HIGH_SCORE_KEY)
  IN <<TxtHighScoreDays, <<>>, IF Truthy(item) THEN item[1] ELSE TxtZero>>

ExportRowsIncidentFirst(store) ==
  <<HeaderRow>> \o IncidentRows(store) \o WaterRows(store) \o <<HighScoreRow(store)>>

\* the rows array exportRecords builds
ExportRows(store) ==
  <<HeaderRow>> \o WaterRows(store) \o IncidentRows(store) \o <<HighScoreRow(store)>>

\* the file exportRecords hands to the browser at time t
ExportFile(store, t) ==
  [fileName |-> TxtFilePrefix \o IsoDate(t) \o TxtFileSuffix,
   content |-> CsvContent(ExportRows(store))]

-----------------------------------------------------------------------------
(* Click handlers: what each writes before it calls updateDisplays *)

WaterWritesHistoryOnly(store, t) ==
  SaveWaterHistory(store, Unshift(GetWaterHistory(store), t))

\* waterButton click, lines 80-86
WaterWrites(store, t) ==
  LET s1 == SetItem(store, WATER_KEY, NumberToString(Num(t)))
  IN SaveWaterHistory(s1, Unshift(GetWaterHistory(s1), t))

IncidentWritesKeepFirst(store, t) ==
  IF INCIDENT_KEY \in DOMAIN store THEN store
  ELSE SetItem(store, INCIDENT_KEY, NumberToString(Num(t)))

\* incidentButton click, lines 91-92
IncidentWrites(store, t) ==
  SetItem(store, INCIDENT_KEY, NumberToString(Num(t)))

-----------------------------------------------------------------------------
(* The streak that is running, for the history variable *)

Max(a, b) == IF a >= b THEN a ELSE b

\* whole days from the stored incident to time t; 0 when none is stored
RunningStreak(store, t) ==
  LET item == GetItem(store, INCIDENT_KEY)
      days == IF Truthy(item) THEN DifferenceInDays(ParseInt(item[1]), Num(t)) ELSE NaN
  IN IF days.nan THEN 0 ELSE days.val

-----------------------------------------------------------------------------
(* Inputs *)

\* the instants at which the user clicks during a short session
UserInstants == {LoadTime + 30000, LoadTime + 90000}

\* the instants at which the user clicks during a session of a day and more
DayInstants == {LoadTime + 30000, LoadTime + MsPerDay + 45000}

Horizon == LoadTime + MaxTicks * TimerPeriod
DayHorizon == LoadTime + MsPerDay + 2 * TimerPeriod

TxtMalformed == <<"a", "b", "c">>

\* what an earlier session, another script or the user may have left in a key
WaterChoices ==
  {<<>>, <<TxtMalformed>>, <<NumberToString(Num(LoadTime - 3600000))>>}
IncidentChoices ==
  {<<>>, <<TxtMalformed>>,
   <<NumberToString(Num(LoadTime + 30000 - 2 * MsPerDay - 1000))>>,
   <<NumberToString(Num(LoadTime + 90000 - MsPerDay))>>,
   <<NumberToString(Num(LoadTime + 3 * MsPerDay))>>}
HistoryChoices ==
  {<<>>, <<TxtMalformed>>, <<NumberToString(Num(5))>>,
   <<JsonStringify(<<LoadTime - 3600000>>)>>}
HighScoreChoices ==
  {<<>>, <<TxtMalformed>>, <<NumberToString(Num(1))>>, <<NumberToString(Num(3))>>}

Keys == {WATER_KEY, INCIDENT_KEY, WATER_HISTORY_KEY, HIGH_SCORE_KEY}

StoreOf(w, i, h, s) ==
  LET item == (WATER_KEY :> w) @@ (INCIDENT_KEY :> i)
              @@ (WATER_HISTORY_KEY :> h) @@ (HIGH_SCORE_KEY :> s)
  IN [k \in {k \in Keys : item[k] # <<>>} |-> item[k][1]]

EmptyStore == StoreOf(<<>>, <<>>, <<>>, <<>>)

StoredStores ==
  {StoreOf(w, i, h, s) : w \in WaterChoices, i \in IncidentChoices,
                         h \in HistoryChoices, s \in HighScoreChoices}

-----------------------------------------------------------------------------
(* The state machine *)

\* the script has run: updateDisplays() once, setInterval armed (lines 104-105)
Load(store) ==
  \E r \in {UpdateDisplays(store, LoadTime)} :
     /\ localStorage = r.store
     /\ dom = r.dom
     /\ download = <<>>
     /\ now = LoadTime
     /\ nextTick = LoadTime + TimerPeriod
     /\ lastOp = "load"
     /\ hsCall = r.hsCall
     /\ hsWrote = r.hsWrote
     /\ bestStreak = HighScoreValue(r.store).val

Init == Load(EmptyStore)

InitStored == \E store \in StoredStores : Load(store)

\* the page shows what updateDisplays computed from store at the present time
Refresh(store, op) ==
  \E r \in {UpdateDisplays(store, now)} :
     /\ localStorage' = r.store
     /\ dom' = r.dom
     /\ hsCall' = r.hsCall
     /\ hsWrote' = r.hsWrote
     /\ lastOp' = op

\* waterButton click (lines 79-88)
WaterClick(instants) ==
  /\ now \in instants
  /\ Len(GetWaterHistory(localStorage)) < MaxHistory
  /\ Refresh(WaterWrites(localStorage, now), "water")
  /\ UNCHANGED <<download, now, nextTick, bestStreak>>

\* incidentButton click (lines 90-94)
IncidentClick(instants) ==
  /\ now \in instants
  /\ Refresh(IncidentWrites(localStorage, now), "incident")
  /\ bestStreak' = Max(bestStreak, RunningStreak(localStorage, now))
  /\ UNCHANGED <<download, now, nextTick>>

\* exportButton click (lines 97-100, 114-166)
ExportClick(instants) ==
  /\ now \in instants
  /\ download' = <<ExportFile(localStorage, now)>>
  /\ lastOp' = "export"
  /\ hsCall' = <<>>
  /\ hsWrote' = FALSE
  /\ UNCHANGED <<localStorage, dom, now, nextTick, bestStreak>>

\* the interval timer fires (line 105)
Timer ==
  /\ now = nextTick
  /\ Refresh(localStorage, "timer")
  /\ nextTick' = nextTick + TimerPeriod
  /\ UNCHANGED <<download, now, bestStreak>>

\* time passes, up to the next instant at which something happens; a timer that
\* is due fires first
Advance(instants, horizon) ==
  /\ now < nextTick
  /\ LET later == {t \in instants \cup {nextTick} : t > now}
         next == CHOOSE t \in later : \A u \in later : t <= u
     IN /\ next <= horizon
        /\ now' = next
        /\ bestStreak' = Max(bestStreak, RunningStreak(localStorage, next))
  /\ lastOp' = "advance"
  /\ hsCall' = <<>>
  /\ hsWrote' = FALSE
  /\ UNCHANGED <<localStorage, dom, download, nextTick>>

Next ==
  \/ WaterClick(UserInstants)
  \/ IncidentClick(UserInstants)
  \/ ExportClick(UserInstants)
  \/ Timer
  \/ Advance(UserInstants, Horizon)

NextDay ==
  \/ WaterClick(DayInstants)
  \/ IncidentClick(DayInstants)
  \/ Timer
  \/ Advance(DayInstants, DayHorizon)

\* a first visit: the store is empty at page load
Spec == Init /\ [][Next]_vars

\* a later visit: the store holds what was left in it
SpecStored == InitStored /\ [][Next]_vars

\* a first visit that lasts a day and more
SpecDay == Init /\ [][NextDay]_vars

-----------------------------------------------------------------------------
(* Properties *)

HasKey(key) == key \in DOMAIN localStorage

\* a key holds a text that parseInt does not read as a number
MalformedNumber(key) == HasKey(key) /\ ParseInt(localStorage[key]).nan

\* the stored incident time, when it is a number
IncidentStored == HasKey(INCIDENT_KEY) /\ ~ParseInt(localStorage[INCIDENT_KEY]).nan
IncidentTime == ParseInt(localStorage[INCIDENT_KEY]).val

\* C1: the stored high score, as the program reads it, never goes down in a
\* step, whichever handler runs and however the clock moves.
C1_HighScoreNeverDecreases ==
  [][HighScoreValue(localStorage').val >= HighScoreValue(localStorage).val]_vars

\* an incident has just been recorded while a positive high score is stored
C1_Witness ==
  /\ lastOp = "incident"
  /\ dom.daysDisplay = TxtZero
  /\ HighScoreValue(localStorage).val >= 1

\* C2: whenever a handler has just run, the stored high score equals the
\* longest whole-day streak reached so far, the streak that was running when
\* an incident was recorded included.
C2_HighScoreIsLongestStreak ==
  lastOp # "advance" => HighScoreValue(localStorage).val = bestStreak

C4_StreakIsWholeDays ==
  (lastOp # "advance" /\ lastOp # "export" /\ IncidentStored /\ now >= IncidentTime) =>
    /\ dom.daysDisplay = NumberToString(Num((now - IncidentTime) \div 86400000))
    /\ (now < IncidentTime + 86400000 => dom.daysDisplay = <<"0">>)
    /\ (now = IncidentTime + 2 * 86400000 + 1000 => dom.daysDisplay = <<"2">>)

\* a refresh just over two days after the incident shows 2
C4_Witness ==
  /\ lastOp = "water"
  /\ IncidentStored
  /\ now = IncidentTime + 2 * 86400000 + 1000
  /\ dom.daysDisplay = <<"2">>

\* C5: a key holding a malformed value is displayed as a missing key is: "No
\* record yet", "No incident", an empty history list, a high score of 0.
C5_MalformedAsMissing ==
  /\ MalformedNumber(WATER_KEY) => dom.lastWaterDisplay = TxtNoRecordYet
  /\ MalformedNumber(INCIDENT_KEY) => dom.daysDisplay = TxtNoIncident
  /\ MalformedNumber(HIGH_SCORE_KEY) => dom.highScoreDisplay = TxtZero
  /\ (HasKey(WATER_HISTORY_KEY) /\ JsonParse(localStorage[WATER_HISTORY_KEY]).kind # "array")
       => dom.waterHistoryList = <<>>

\* C6: when a handler has called updateHighScore(s), calling it again with the
\* same s writes nothing and leaves the store as it is; and when s equalled the
\* stored high score, the call itself wrote nothing.
C6_RefreshIdempotentStrict ==
  [][(lastOp' # "advance" /\ hsCall' # <<>>) =>
       /\ ~UpdateHighScore(localStorage', hsCall'[1]).wrote
       /\ UpdateHighScore(localStorage', hsCall'[1]).store = localStorage'
       /\ (~hsCall'[1].nan /\ hsCall'[1].val = HighScoreValue(localStorage).val) =>
            /\ ~hsWrote'
            /\ GetItem(localStorage', HIGH_SCORE_KEY) = GetItem(localStorage, HIGH_SCORE_KEY)]_vars

\* a timer refresh whose streak equals a positive stored high score wrote nothing
C6_Witness ==
  /\ lastOp = "timer"
  /\ hsCall # <<>>
  /\ ~hsCall[1].nan
  /\ hsCall[1].val = HighScoreValue(localStorage).val
  /\ hsCall[1].val >= 1
  /\ ~hsWrote

\* the rows C7 describes, for the store as it is
C7_Rows ==
  LET h == GetWaterHistory(localStorage)
  IN <<  <<TxtRecordType, TxtTimestamp, TxtDateTime>>  >>
     \o [i \in 1..Len(h) |-> <<TxtWater, NumberToString(Num(h[i])), FormatDateTime(Num(h[i]))>>]
     \o (IF HasKey(INCIDENT_KEY)
         THEN << <<TxtLastIncident, localStorage[INCIDENT_KEY],
                   FormatDateTime(ParseInt(localStorage[INCIDENT_KEY]))>> >>
         ELSE <<>>)
     \o << <<TxtHighScoreDays, <<>>,
             IF HasKey(HIGH_SCORE_KEY) THEN localStorage[HIGH_SCORE_KEY] ELSE <<"0">> >> >>

\* C7: an export click produces the header row, one Water row per history
\* entry in stored order, one Last Incident row exactly when an incident is
\* stored, and one high-score row with the stored value (0 when absent); it
\* changes no stored key.
C7_ExportRowsInOrder ==
  [][lastOp' = "export" =>
       /\ download'[1].content = CsvContent(C7_Rows)
       /\ localStorage' = localStorage]_vars

\* an export has just run on a store holding water events, an incident and a
\* high score
C7_Witness ==
  /\ lastOp = "export"
  /\ download # <<>>
  /\ Len(GetWaterHistory(localStorage)) >= 2
  /\ HasKey(INCIDENT_KEY)
  /\ HasKey(HIGH_SCORE_KEY)

\* C8: while no incident is stored, the high-score key is unwritten, no
\* handler has called updateHighScore and the streak display says "No incident".
C8_NoIncidentNoHighScore ==
  ~HasKey(INCIDENT_KEY) =>
    /\ ~HasKey(HIGH_SCORE_KEY)
    /\ hsCall = <<>>
    /\ ~hsWrote
    /\ dom.daysDisplay = TxtNoIncident

\* more than a day of timer refreshes and a water click, and still no incident
C8_Witness ==
  /\ ~HasKey(INCIDENT_KEY)
  /\ lastOp = "timer"
  /\ now > LoadTime + MsPerDay
  /\ GetWaterHistory(localStorage) # <<>>

\* C9: a record-incident click at time now stores now as the incident time
\* whatever was stored, no key is added to keep the earlier time, the streak
\* shown is 0, the water keys are as they were and the high score is not lowered.
C9_RecordIncidentOverwrites ==
  [][lastOp' = "incident" =>
       /\ GetItem(localStorage', INCIDENT_KEY) = <<NumberToString(Num(now))>>
       /\ dom'.daysDisplay = <<"0">>
       /\ DOMAIN localStorage' = DOMAIN localStorage \cup {INCIDENT_KEY}
       /\ GetItem(localStorage', WATER_KEY) = GetItem(localStorage, WATER_KEY)
       /\ GetItem(localStorage', WATER_HISTORY_KEY) = GetItem(localStorage, WATER_HISTORY_KEY)
       /\ HighScoreValue(localStorage').val >= HighScoreValue(localStorage).val]_vars

\* an incident has just been recorded over an earlier one whose streak had
\* reached two days, with water events stored
C9_Witness ==
  /\ lastOp = "incident"
  /\ IncidentStored
  /\ IncidentTime = now
  /\ HighScoreValue(localStorage).val = 2
  /\ bestStreak = 2
  /\ GetWaterHistory(localStorage) # <<>>

\* C10: from an empty store, the last-water key is stored exactly when the
\* history is not empty, and then it is the text of the history's first entry.
C10_LastWaterIsHistoryHead ==
  /\ HasKey(WATER_KEY) <=> GetWaterHistory(localStorage) # <<>>
  /\ HasKey(WATER_KEY) =>
       /\ localStorage[WATER_KEY] = NumberToString(Num(GetWaterHistory(localStorage)[1]))
       /\ ParseInt(localStorage[WATER_KEY]).val = GetWaterHistory(localStorage)[1]

\* two water events recorded at different instants
C10_Witness ==
  /\ Len(GetWaterHistory(localStorage)) >= 2
  /\ GetWaterHistory(localStorage)[1] > GetWaterHistory(localStorage)[2]

====
